---- MODULE Spec2Model ----
(***************************************************************************)
(* Model of the runner game of script.js: a population of robots, each     *)
(* driven by a small feed-forward network, evolved by Game.restartGame.    *)
(*                                                                         *)
(* Numbers are fixed point.  Lengths are in 1/Unit pixels, velocities in   *)
(* 1/Unit pixels per millisecond, weights, biases, activations and the     *)
(* values of Math.random() in 1/WUnit.  deltaTime is whole milliseconds.   *)
(***************************************************************************)
EXTENDS Integers, Sequences, FiniteSets, TLC

VARIABLES
  robots,      \* robot_i of Game.#objs: [0..N-1 -> Robot]
  box,         \* the 'box' game object
  pause,       \* Game.#pause
  btnsUp,      \* Keyboard.#btnsUp, as "Space is in the set"
  ticks,       \* number of Game.update calls so far
  generation,  \* number of Game.restartGame calls so far
  restarted,   \* the last Game.update call ran Game.restartGame
  prev,        \* the robots as the last tick loop left them (before any restart)
  rank,        \* the array `robots` of the last restartGame, after its sort
  draw,        \* the Math.random() stream of the last restartGame
  mutation,    \* the last Neuron.createMutation call of the mutation harness
  boxBefore,   \* the box as it stood when the last Game.update call began
  network      \* the NeuralNetwork object of the network harness

vars == <<robots, box, pause, btnsUp, ticks, generation, restarted, prev,
          rank, draw, mutation, boxBefore, network>>

----------------------------------------------------------------------------
(* Bounds of the model *)

NumRobots == 5        \* NUM_OF_ROBOTS of the model
MaxTicks == 10        \* Game.update calls explored from Game.loadContent
UnitTicks == 2        \* Game.update calls explored from a drawn population
MaxDistance == 1      \* a drawn dead robot has the distance 0 or MaxDistance
MaxMutations == 2     \* chained Neuron.createMutation calls explored
MaxLayers == 2        \* layers of a drawn layersConfig
MaxInputs == 3        \* length of a drawn input of NeuralNetwork.predict

Unit == 100 * 1000    \* length units per pixel
WUnit == 10 * 100     \* weight units per 1.0
RandUnit == 10 * 10   \* Math.random() takes the values k / RandUnit

----------------------------------------------------------------------------
(* Constants of script.js *)

DEFAULT_VIEW_WIDTH == 600
DEFAULT_VIEW_HEIGHT == 450
GRAVITY_VELOCITY == 256          \* 0.00256 px/ms^2
GROUND_BOTTOM_OFFSET == 20
BOX_VELOCITY_FACTOR == 500       \* 0.005 px/ms per ms
BOX_MAX_VELOCITY == 75000        \* 0.75 px/ms
BOX_INIT_VELOCITY == 15000       \* 0.15 px/ms
MIN_JUMP_PROBABILITY == 500      \* 0.5
MUTATION_MULT == 100             \* 0.1
MUTATION_FLOOR == 10             \* the 0.01 of Math.max(0.01, result)
JumpForce == 90000               \* Robot.jumpForce = 0.9 px/ms
FrameWidth == 64
FrameHeight == 64
NumFrames == 4
FrameRate == 100
BoxNaturalWidth == 32            \* box.png
BoxNaturalHeight == 32
BoxWrapX == -32
RobotStartX == 10
RectInset == 16

DEFAULT_NN_CONFIG ==
  << [size |-> 5,  funcName |-> "SIGMOID"],
     [size |-> 10, funcName |-> "SIGMOID"],
     [size |-> 5,  funcName |-> "SIGMOID"],
     [size |-> 2,  funcName |-> "SIGMOID"],
     [size |-> 1,  funcName |-> "SIGMOID"] >>

ViewWidth == DEFAULT_VIEW_WIDTH
ViewHeight == DEFAULT_VIEW_HEIGHT
PlatformY == ViewHeight - GROUND_BOTTOM_OFFSET

----------------------------------------------------------------------------
(* Math.random(): the calls made inside one handler read consecutive       *)
(* values of a stream whose start the environment chooses.                 *)

RandStep == 37
Seeds == {0, 29, 58, 87}

Random(seed, k) == (seed + k * RandStep) % RandUnit

\* Math.random() as a number in weight units
RandomValue(seed, k) == (Random(seed, k) * WUnit) \div RandUnit

\* Math.random() >= 0.5
RandomHigh(seed, k) == 2 * Random(seed, k) >= RandUnit

Max(a, b) == IF a >= b THEN a ELSE b
Min(a, b) == IF a <= b THEN a ELSE b

\* product of two fixed-point numbers of scale WUnit
Mul(a, b) == (a * b) \div WUnit

----------------------------------------------------------------------------
(* Activation functions *)

\* 1 / (1 + exp(-x)), by the piecewise linear approximation with breakpoints
\* at 1, 2.375 and 5; exact at 0 and monotone, as the original
SigmoidPos(x) ==
  IF x >= 5 * WUnit THEN WUnit
  ELSE IF 8 * x >= 19 * WUnit THEN (x \div 32) + (27 * WUnit) \div 32
  ELSE IF x >= WUnit THEN (x \div 8) + (5 * WUnit) \div 8
  ELSE (x \div 4) + WUnit \div 2

sigmoid(x) == IF x >= 0 THEN SigmoidPos(x) ELSE WUnit - SigmoidPos(-x)

linear(x) == x

relu(x) == Max(0, x)

leakyRelu(x) == Max(x \div 100, x)

\* Math.tanh(x), as 2 * sigmoid(2 * x) - 1
tanh(x) == 2 * sigmoid(2 * x) - WUnit

\* the keys of NeuralActivationFunc
NeuralActivationFunc ==
  {"SIGMOID", "RELU", "LEAKY_RELU", "LINEAR", "TANH", "SOFTMAX"}

\* this.activationFunc(result) of Neuron.activate; softmax takes an array and
\* is no activation of a single neuron
Activation(funcName, x) ==
  CASE funcName = "SIGMOID" -> sigmoid(x)
    [] funcName = "RELU" -> relu(x)
    [] funcName = "LEAKY_RELU" -> leakyRelu(x)
    [] funcName = "LINEAR" -> linear(x)
    [] funcName = "TANH" -> tanh(x)

----------------------------------------------------------------------------
(* Neuron, NeuralLayer, NeuralNetwork *)

RECURSIVE SumTo(_, _)
SumTo(f, n) == IF n = 0 THEN 0 ELSE f[n] + SumTo(f, n - 1)

\* Neuron.activate
activate(neuron, entries) ==
  LET terms == [i \in 1..Len(neuron.weights) |->
                  Mul(neuron.weights[i], entries[i])]
      result == SumTo(terms, Len(neuron.weights)) + neuron.bias
  IN  Activation(neuron.activationFunc, result)

\* Neuron.create: weightsSize draws for the weights, then one for the bias
NeuronCreate(weightsSize, activationFunc, seed, k) ==
  [weights |-> [i \in 1..weightsSize |-> RandomValue(seed, k + i - 1)],
   bias |-> RandomValue(seed, k + weightsSize),
   activationFunc |-> activationFunc]

\* NeuralLayer.create
LayerCreate(size, weightsSize, isOutputLayer, activationFunc, seed, k) ==
  [neurons |-> [n \in 1..size |->
      NeuronCreate(weightsSize, activationFunc, seed,
                   k + (n - 1) * (weightsSize + 1))],
   isOutputLayer |-> isOutputLayer]

\* the width of the neurons of layer i of a configuration
WeightsSize(layersConfig, i) == IF i = 1 THEN 1 ELSE layersConfig[i - 1].size

\* the number of weights and biases of the layers before layer i
RECURSIVE ParamsBefore(_, _)
ParamsBefore(layersConfig, i) ==
  IF i = 1 THEN 0
  ELSE ParamsBefore(layersConfig, i - 1)
       + layersConfig[i - 1].size * (WeightsSize(layersConfig, i - 1) + 1)

NumParams(layersConfig) == ParamsBefore(layersConfig, Len(layersConfig) + 1)

\* NeuralNetwork.createLayers, for a configuration it accepts
createLayers(layersConfig, seed, k) ==
  [i \in 1..Len(layersConfig) |->
     LayerCreate(layersConfig[i].size,
                 WeightsSize(layersConfig, i),
                 i # 1 /\ i = Len(layersConfig),
                 layersConfig[i].funcName,
                 seed,
                 k + ParamsBefore(layersConfig, i))]

\* one layer of NeuralNetwork.predict: layer 0 hands neuron n the single
\* value values[n], every other layer hands each neuron the whole layerInput
LayerForward(layer, isFirst, layerInput) ==
  LET size == Len(layer.neurons)
      temp == [n \in 1..size |->
                 activate(layer.neurons[n],
                          IF isFirst THEN << layerInput[n] >> ELSE layerInput)]
  IN  SubSeq(temp, 1, size)

\* the outputs of the layers 1..layerIndex for the input `values`
RECURSIVE LayerOutput(_, _, _)
LayerOutput(layers, values, layerIndex) ==
  IF layerIndex = 1
  THEN LayerForward(layers[1], TRUE, values)
  ELSE LayerForward(layers[layerIndex], FALSE,
                    LayerOutput(layers, values, layerIndex - 1))

\* NeuralNetwork.predict, for an input of the length of layer 0
predict(layers, values) == LayerOutput(layers, values, Len(layers))

\* the layers of a configuration whose funcName NeuralActivationFunc lacks
UnknownLayers(layersConfig) ==
  {i \in 1..Len(layersConfig) :
     layersConfig[i].funcName \notin NeuralActivationFunc}

\* the first layer at which NeuralNetwork.createLayers throws
FirstUnknown(layersConfig) ==
  CHOOSE i \in UnknownLayers(layersConfig) :
    \A j \in UnknownLayers(layersConfig) : i <= j

\* a call of NeuralNetwork.createLayers on a network holding `layers`: an
\* empty configuration throws before this.layers is touched, an unknown
\* funcName throws after the layers before it have been pushed
CreateLayersCall(layers, layersConfig, seed, k) ==
  IF Len(layersConfig) = 0
  THEN [threw |-> TRUE, layers |-> layers]
  ELSE IF UnknownLayers(layersConfig) # {}
  THEN [threw |-> TRUE,
        layers |-> SubSeq(createLayers(layersConfig, seed, k), 1,
                          FirstUnknown(layersConfig) - 1)]
  ELSE [threw |-> FALSE, layers |-> createLayers(layersConfig, seed, k)]

\* the neurons whose activationFunc is softmax: Neuron.activate hands it a
\* number, and softmax calls arr.map on it
SoftmaxNeurons(layers) ==
  {<<l, n>> \in (1..Len(layers)) \X (1..10) :
     /\ n <= Len(layers[l].neurons)
     /\ layers[l].neurons[n].activationFunc = "SOFTMAX"}

\* a call of NeuralNetwork.predict: this.layers[0].size of a network without
\* layers throws, an input of another length than layer 0 throws, and so
\* does the first softmax neuron
PredictCall(layers, values) ==
  IF layers = << >> THEN [threw |-> TRUE, result |-> << >>]
  ELSE IF Len(values) # Len(layers[1].neurons)
  THEN [threw |-> TRUE, result |-> << >>]
  ELSE IF SoftmaxNeurons(layers) # {}
  THEN [threw |-> TRUE, result |-> << >>]
  ELSE [threw |-> FALSE, result |-> predict(layers, values)]

----------------------------------------------------------------------------
(* Game objects *)

\* the y of the box: four box heights above the platform when the draw is
\* >= 0.5, standing on it otherwise
BoxY(high) ==
  IF high THEN (PlatformY - BoxNaturalHeight * 4) * Unit
  ELSE (PlatformY - BoxNaturalHeight) * Unit

RobotStartPosition ==
  [x |-> RobotStartX * Unit, y |-> (PlatformY - FrameHeight) * Unit]

BoxStartX == (ViewWidth + 100) * Unit

\* Box.update moves the box past the left edge and recycles it
BoxWraps(b, deltaTime) ==
  b.position.x - b.velocity * deltaTime <= BoxWrapX * Unit

\* Box.update
BoxUpdate(b, deltaTime, seed, k) ==
  IF BoxWraps(b, deltaTime)
  THEN [position |-> [x |-> ViewWidth * Unit, y |-> BoxY(RandomHigh(seed, k))],
        velocity |-> Min(BOX_MAX_VELOCITY,
                         b.velocity + BOX_VELOCITY_FACTOR * deltaTime)]
  ELSE [position |-> [x |-> b.position.x - b.velocity * deltaTime,
                      y |-> b.position.y],
        velocity |-> b.velocity]

\* Sprite.rect of the box
BoxRect(b) ==
  [left |-> b.position.x, top |-> b.position.y,
   right |-> b.position.x + BoxNaturalWidth * Unit,
   bottom |-> b.position.y + BoxNaturalHeight * Unit]

\* Robot.rect
RobotRect(r) ==
  [left |-> r.position.x + RectInset * Unit, top |-> r.position.y,
   right |-> r.position.x + (FrameWidth - RectInset) * Unit,
   bottom |-> r.position.y + FrameHeight * Unit]

Intersects(robotRect, boxRect) ==
  ~ (\/ robotRect.bottom < boxRect.top
     \/ robotRect.right < boxRect.left
     \/ robotRect.left > boxRect.right
     \/ robotRect.top > boxRect.bottom)

\* AnimatedSprite.update
AnimatedUpdate(r, deltaTime) ==
  IF r.timer + deltaTime >= FrameRate
  THEN [r EXCEPT !.currentFrame = IF r.currentFrame + 1 >= NumFrames
                                  THEN 0 ELSE r.currentFrame + 1,
                 !.timer = 0]
  ELSE [r EXCEPT !.timer = r.timer + deltaTime]

\* the input vector Robot.update hands to nn.predict
Sense(r, b) ==
  << r.position.x \div (DEFAULT_VIEW_WIDTH * (Unit \div WUnit)),
     r.position.y \div (DEFAULT_VIEW_HEIGHT * (Unit \div WUnit)),
     b.position.x \div (DEFAULT_VIEW_WIDTH * (Unit \div WUnit)),
     b.position.y \div (DEFAULT_VIEW_HEIGHT * (Unit \div WUnit)),
     b.velocity \div (Unit \div WUnit) >>

\* shouldJump of Robot.update
ShouldJump(r, b) == predict(r.nn, Sense(r, b))[1] >= MIN_JUMP_PROBABILITY

\* Math.ceil(deltaTime * 0.01)
DistanceStep(deltaTime) == (deltaTime + 99) \div 100

\* Robot.update of a robot that is alive
RobotUpdateAlive(r, b, deltaTime, isButtonUp) ==
  LET r0 == AnimatedUpdate(r, deltaTime)
      shouldJump == ShouldJump(r0, b)
      isSpaceUp == isButtonUp \/ shouldJump
      jumps == ~r0.isJumping /\ isSpaceUp
      vy1 == IF jumps THEN -JumpForce ELSE r0.velocity.y
      isJumping1 == r0.isJumping \/ jumps
      x2 == r0.position.x + r0.velocity.x * deltaTime
      y2 == r0.position.y + vy1 * deltaTime
      vy2 == IF isJumping1 THEN vy1 + GRAVITY_VELOCITY * deltaTime ELSE 0
      lands == isJumping1 /\ y2 + FrameHeight * Unit >= r0.groundPos
      r3 == [r0 EXCEPT
               !.position = [x |-> x2,
                             y |-> IF lands
                                   THEN r0.groundPos - FrameHeight * Unit
                                   ELSE y2],
               !.velocity = [x |-> r0.velocity.x,
                             y |-> IF lands THEN 0 ELSE vy2],
               !.isJumping = isJumping1 /\ ~lands]
  IN  [r3 EXCEPT
         !.isAlive = r3.isAlive /\ ~Intersects(RobotRect(r3), BoxRect(b)),
         !.distance = r3.distance + DistanceStep(deltaTime),
         !.predicts = r3.predicts + 1,
         !.sensed = b,
         !.shouldJump = shouldJump]

\* an update without the early return for a dead robot
RobotUpdateNoGuard(r, b, deltaTime, isButtonUp) ==
  RobotUpdateAlive(r, b, deltaTime, isButtonUp)

\* Robot.update
RobotUpdate(r, b, deltaTime, isButtonUp) ==
  IF ~r.isAlive THEN r ELSE RobotUpdateAlive(r, b, deltaTime, isButtonUp)

\* boxRef before any Robot.update has read it
NoBox == [position |-> [x |-> 0, y |-> 0], velocity |-> 0]

\* new Robot(sprite) as Game.loadContent leaves it; predicts counts the
\* nn.predict calls made for the robot, sensed is the state of boxRef its
\* last nn.predict call read and shouldJump the decision of that call
NewRobot(nn) ==
  [isAlive |-> TRUE, isJumping |-> FALSE, position |-> RobotStartPosition,
   velocity |-> [x |-> 0, y |-> 0], groundPos |-> PlatformY * Unit,
   distance |-> 0, currentFrame |-> 0, timer |-> 0, nn |-> nn,
   predicts |-> 0, sensed |-> NoBox, shouldJump |-> FALSE]

----------------------------------------------------------------------------
(* Reproduction: Game.restartGame *)

\* a mutation that never takes the branch weight + mut
createMutationAlwaysMinus(weight, mut, high) ==
  Max(MUTATION_FLOOR, weight - mut)

\* a mutation without Math.max(0.01, result)
createMutationNoFloor(weight, mut, high) ==
  IF high THEN weight + mut ELSE weight - mut

\* Neuron.createMutation; `high` is its Math.random() >= 0.5
createMutation(weight, mut, high) ==
  LET result == IF high THEN weight + mut ELSE weight - mut
  IN  Max(MUTATION_FLOOR, result)

\* the comparator (a, b) => b.distance - a.distance
Compare(rs, a, b) == rs[b].distance - rs[a].distance

\* an insertion that also passes the elements the comparator calls equal
RECURSIVE InsertSortedUnstable(_, _, _)
InsertSortedUnstable(rs, sorted, x) ==
  IF sorted = << >> THEN << x >>
  ELSE LET last == sorted[Len(sorted)]
       IN  IF Compare(rs, last, x) >= 0
           THEN Append(InsertSortedUnstable(rs,
                         SubSeq(sorted, 1, Len(sorted) - 1), x), last)
           ELSE Append(sorted, x)

\* Array.prototype.sort is stable: an element goes behind every element the
\* comparator does not put after it
RECURSIVE InsertSorted(_, _, _)
InsertSorted(rs, sorted, x) ==
  IF sorted = << >> THEN << x >>
  ELSE LET last == sorted[Len(sorted)]
       IN  IF Compare(rs, last, x) > 0
           THEN Append(InsertSorted(rs, SubSeq(sorted, 1, Len(sorted) - 1), x),
                       last)
           ELSE Append(sorted, x)

RECURSIVE SortPrefix(_, _, _)
SortPrefix(rs, arr, n) ==
  IF n = 0 THEN << >>
  ELSE InsertSorted(rs, SortPrefix(rs, arr, n - 1), arr[n])

\* robots.push(robot_0 .. robot_N-1); robots.sort(...): the robot indices by
\* rank, rank 0 at position 1
SortedRobots(rs) ==
  LET n == Cardinality(DOMAIN rs)
  IN  SortPrefix(rs, [j \in 1..n |-> j - 1], n)

\* a threshold at the first fifth of the ranks instead of the last
ReinitTierFifth(i, len) == 10 * i >= len * 2

\* i >= robots.length * 0.8, for the rank i (from 0) of a population of len
ReinitTier(i, len) == 10 * i >= len * 8

\* the number of Math.random() calls the mutation loop makes for one robot
RobotDraws(i, len, numParams) ==
  IF ReinitTier(i, len) THEN numParams ELSE 2 * numParams

\* the number of Math.random() calls of the mutation loop before rank i
RECURSIVE DrawsBefore(_, _, _)
DrawsBefore(i, len, numParams) ==
  IF i <= 1 THEN 0
  ELSE DrawsBefore(i - 1, len, numParams) + RobotDraws(i - 1, len, numParams)

\* a neuron loop that mutates the robot's own values, not the best robot's
MutateNeuronOwn(neuron, bestNeuron, reinit, seed, k) ==
  LET size == Len(bestNeuron.weights)
  IN  IF reinit
      THEN [neuron EXCEPT
              !.weights = [j \in 1..size |-> RandomValue(seed, k + j - 1)],
              !.bias = RandomValue(seed, k + size)]
      ELSE [neuron EXCEPT
              !.weights = [j \in 1..size |->
                 createMutation(neuron.weights[j],
                    Mul(RandomValue(seed, k + 2 * (j - 1)), MUTATION_MULT),
                    RandomHigh(seed, k + 2 * (j - 1) + 1))],
              !.bias = createMutation(neuron.bias,
                    Mul(RandomValue(seed, k + 2 * size), MUTATION_MULT),
                    RandomHigh(seed, k + 2 * size + 1))]

\* the body of the neuron loop: the new weights and bias of one neuron
MutateNeuron(neuron, bestNeuron, reinit, seed, k) ==
  LET size == Len(bestNeuron.weights)
  IN  IF reinit
      THEN [neuron EXCEPT
              !.weights = [j \in 1..size |-> RandomValue(seed, k + j - 1)],
              !.bias = RandomValue(seed, k + size)]
      ELSE [neuron EXCEPT
              !.weights = [j \in 1..size |->
                 createMutation(bestNeuron.weights[j],
                    Mul(RandomValue(seed, k + 2 * (j - 1)), MUTATION_MULT),
                    RandomHigh(seed, k + 2 * (j - 1) + 1))],
              !.bias = createMutation(bestNeuron.bias,
                    Mul(RandomValue(seed, k + 2 * size), MUTATION_MULT),
                    RandomHigh(seed, k + 2 * size + 1))]

Topology(nn) ==
  [l \in 1..Len(nn) |-> [size |-> Len(nn[l].neurons)]]

\* the layer and neuron loops for the robot of rank i
MutateNetwork(nn, bestNN, i, len, seed, k) ==
  LET reinit == ReinitTier(i, len)
      per == IF reinit THEN 1 ELSE 2
      top == Topology(bestNN)
  IN  [l \in 1..Len(nn) |->
        [nn[l] EXCEPT !.neurons =
           [n \in 1..Len(nn[l].neurons) |->
              MutateNeuron(nn[l].neurons[n], bestNN[l].neurons[n], reinit, seed,
                k + per * (ParamsBefore(top, l)
                           + (n - 1) * (Len(bestNN[l].neurons[n].weights) + 1)))]]]

\* a loop that starts at the best robot
MutationLoopStartZero == 1 - 1

\* for (let i = 1; i < robots.length; i++): the first rank the loop mutates
MutationLoopStart == 1

\* the rank (from 0) of robot_j in the sorted array
RankOf(sorted, j) == (CHOOSE p \in 1..Len(sorted) : sorted[p] = j) - 1

\* the mutation loop for robot_j: the best robot is outside the loop
RestartedNetwork(rs, j, seed, k) ==
  LET sorted == SortedRobots(rs)
      i == RankOf(sorted, j)
      bestNN == rs[sorted[1]].nn
  IN  IF i < MutationLoopStart THEN rs[j].nn
      ELSE MutateNetwork(rs[j].nn, bestNN, i, Len(sorted), seed,
             k + 1 + DrawsBefore(i, Len(sorted), NumParams(Topology(bestNN))))

\* a restartGame that revives the robots of its loop only
RestartRobotsBestDead(rs, seed, k) ==
  [j \in DOMAIN rs |->
     [rs[j] EXCEPT
        !.nn = RestartedNetwork(rs, j, seed, k),
        !.isAlive = (RankOf(SortedRobots(rs), j) # 0),
        !.position = RobotStartPosition]]

\* Game.restartGame on the robots; its Math.random() calls start at call k
\* of the stream, the first of them for the box
RestartRobots(rs, seed, k) ==
  [j \in DOMAIN rs |->
     [rs[j] EXCEPT
        !.nn = RestartedNetwork(rs, j, seed, k),
        !.isAlive = TRUE,
        !.position = [x |-> RobotStartX * Unit,
                      y |-> (PlatformY - FrameHeight) * Unit]]]

\* Game.restartGame on the box
RestartBox(seed, k) ==
  [position |-> [x |-> BoxStartX, y |-> BoxY(RandomHigh(seed, k))],
   velocity |-> BOX_INIT_VELOCITY]

----------------------------------------------------------------------------
(* The game: Game.loadContent, Game.update, the keyboard *)

DeltaTimes == {500, 1000}

NoMutation == [weight |-> 0, mut |-> 0, high |-> FALSE, result |-> 0, calls |-> 0]

\* new NeuralNetwork(), no method called on it yet
NewNetwork ==
  [layers |-> << >>, call |-> "new", layersConfig |-> << >>, values |-> << >>,
   threw |-> FALSE, result |-> << >>]

\* Game.loadContent: the box draws its y, then every robot its network
LoadedRobots(n, seed) ==
  [j \in 0..(n - 1) |->
     NewRobot(createLayers(DEFAULT_NN_CONFIG, seed,
                           1 + j * NumParams(DEFAULT_NN_CONFIG)))]

\* the state Game.loadContent leaves, Math.random() starting at `seed`
Loaded(seed, rs) ==
  /\ robots = rs
  /\ box = RestartBox(seed, 0)
  /\ pause = FALSE
  /\ btnsUp = FALSE
  /\ ticks = 0
  /\ generation = 0
  /\ restarted = FALSE
  /\ prev = rs
  /\ rank = << >>
  /\ draw = [seed |-> seed, k |-> 0]
  /\ boxBefore = RestartBox(seed, 0)

Init ==
  /\ \E seed \in Seeds : Loaded(seed, LoadedRobots(NumRobots, seed))
  /\ mutation = NoMutation
  /\ network = NewNetwork

\* Keyboard.#onButtonUp for the space bar
KeyUp ==
  /\ ~btnsUp
  /\ btnsUp' = TRUE
  /\ UNCHANGED <<robots, box, pause, ticks, generation, restarted, prev, rank,
                 draw, mutation, boxBefore, network>>

AllDead(rs) == \A j \in DOMAIN rs : ~rs[j].isAlive

\* the loop over Game.#objs of Game.update: the platform, the box, the robots
TickBox(deltaTime, seed) == BoxUpdate(box, deltaTime, seed, 0)

\* a loop that updates the robots before the box
TickRobotsBeforeBox(deltaTime, seed) ==
  [j \in DOMAIN robots |-> RobotUpdate(robots[j], box, deltaTime, btnsUp)]

TickRobots(deltaTime, seed) ==
  [j \in DOMAIN robots |->
     RobotUpdate(robots[j], TickBox(deltaTime, seed), deltaTime, btnsUp)]

\* Game.update
GameUpdate(deltaTime, seed) ==
  /\ ticks' = ticks + 1
  /\ IF pause
     THEN UNCHANGED <<robots, box, pause, btnsUp, generation, restarted, prev,
                      rank, draw, boxBefore>>
     ELSE LET k == IF BoxWraps(box, deltaTime) THEN 1 ELSE 0
              robots1 == TickRobots(deltaTime, seed)
          IN  /\ prev' = robots1
              /\ boxBefore' = box
              /\ IF AllDead(prev')
                 THEN /\ robots' = RestartRobots(prev', seed, k)
                      /\ box' = RestartBox(seed, k)
                      /\ rank' = SortedRobots(prev')
                      /\ draw' = [seed |-> seed, k |-> k]
                      /\ generation' = generation + 1
                      /\ restarted' = TRUE
                      /\ pause' = FALSE
                      /\ UNCHANGED btnsUp
                 ELSE /\ robots' = prev'
                      /\ box' = TickBox(deltaTime, seed)
                      /\ restarted' = FALSE
                      /\ btnsUp' = FALSE
                      /\ UNCHANGED <<pause, generation, rank, draw>>
  /\ UNCHANGED <<mutation, network>>

\* Game.update calls Math.random() when the box is recycled and when it
\* restarts the game; otherwise the stream is not read
CallsRandom(deltaTime) ==
  /\ ~pause
  /\ \/ BoxWraps(box, deltaTime)
     \/ AllDead(TickRobots(deltaTime, 0))

Streams(deltaTime) == IF CallsRandom(deltaTime) THEN Seeds ELSE {0}

\* one frame of gameLoop
Tick ==
  /\ ticks < MaxTicks
  /\ \E deltaTime \in DeltaTimes :
       \E seed \in Streams(deltaTime) : GameUpdate(deltaTime, seed)

Next == Tick \/ KeyUp

Spec == Init /\ [][Next]_vars

----------------------------------------------------------------------------
(* Game.update applied to drawn populations: robots that are already dead,  *)
(* with a fitness of their own, next to robots that are still running       *)

Drawn == {[isAlive |-> TRUE, distance |-> 0]}
           \cup {[isAlive |-> FALSE, distance |-> d] : d \in {0, MaxDistance}}

InitUnit ==
  /\ \E drawn \in [0..(NumRobots - 1) -> Drawn] :
       Loaded(0,
         [j \in 0..(NumRobots - 1) |->
            [LoadedRobots(NumRobots, 0)[j] EXCEPT
               !.isAlive = drawn[j].isAlive,
               !.distance = drawn[j].distance]])
  /\ mutation = NoMutation
  /\ network = NewNetwork

UnitTick ==
  /\ ticks < UnitTicks
  /\ \E deltaTime \in DeltaTimes :
       \E seed \in Streams(deltaTime) : GameUpdate(deltaTime, seed)

NextUnit == UnitTick

SpecUnit == InitUnit /\ [][NextUnit]_vars

----------------------------------------------------------------------------
(* Neuron.createMutation applied to drawn arguments, and to its own results *)

MutationWeights == {-20, 0, 5, 10, 11, 60, 500, 990}
MutationMagnitudes == {0, 1, 5, 50, 99, 100, 5000}

InitMutation ==
  /\ Loaded(0, LoadedRobots(NumRobots, 0))
  /\ mutation = NoMutation
  /\ network = NewNetwork

CreateMutationCall ==
  /\ mutation.calls < MaxMutations
  /\ \E weight \in IF mutation.calls = 0 THEN MutationWeights
                   ELSE MutationWeights \cup {mutation.result},
        mut \in MutationMagnitudes, high \in BOOLEAN :
       mutation' = [weight |-> weight, mut |-> mut, high |-> high,
                    result |-> createMutation(weight, mut, high),
                    calls |-> mutation.calls + 1]
  /\ UNCHANGED <<robots, box, pause, btnsUp, ticks, generation, restarted,
                 prev, rank, draw, boxBefore, network>>

NextMutation == CreateMutationCall

SpecMutation == InitMutation /\ [][NextMutation]_vars

----------------------------------------------------------------------------
(* NeuralNetwork.createLayers and NeuralNetwork.predict called on one       *)
(* network object with drawn configurations and inputs                      *)

LayerSizes == {1, 2}
FuncNames == {"SIGMOID", "SOFTMAX", "SWISH"}
InputValues == {WUnit \div 2}

\* the drawn configurations, the empty one and DEFAULT_NN_CONFIG among them
LayersConfigs ==
  UNION {[1..n -> [size : LayerSizes, funcName : FuncNames]] :
           n \in 0..MaxLayers}
    \cup {DEFAULT_NN_CONFIG}

\* the drawn inputs, and the input Robot.update builds
PredictInputs ==
  UNION {[1..n -> InputValues] : n \in 0..MaxInputs}
    \cup {Sense(NewRobot(<< >>), RestartBox(0, 0))}

InitNetwork ==
  /\ Loaded(0, LoadedRobots(NumRobots, 0))
  /\ mutation = NoMutation
  /\ network = NewNetwork

CreateLayers ==
  /\ \E layersConfig \in LayersConfigs :
       LET call == CreateLayersCall(network.layers, layersConfig, 0, 0)
       IN  network' = [layers |-> call.layers, call |-> "createLayers",
                       layersConfig |-> layersConfig, values |-> << >>,
                       threw |-> call.threw, result |-> << >>]
  /\ UNCHANGED <<robots, box, pause, btnsUp, ticks, generation, restarted,
                 prev, rank, draw, mutation, boxBefore>>

Predict ==
  /\ \E values \in PredictInputs :
       LET call == PredictCall(network.layers, values)
       IN  network' = [network EXCEPT !.call = "predict", !.values = values,
                                      !.threw = call.threw,
                                      !.result = call.result]
  /\ UNCHANGED <<robots, box, pause, btnsUp, ticks, generation, restarted,
                 prev, rank, draw, mutation, boxBefore>>

NextNetwork == CreateLayers \/ Predict

SpecNetwork == InitNetwork /\ [][NextNetwork]_vars

----------------------------------------------------------------------------
(* Properties *)

Robots == DOMAIN robots
PopSize == Cardinality(Robots)

\* the positions <<layer, neuron, k>> of the values of a network: k = 0 is the
\* bias, k > 0 the weight of index k - 1
Params(nn) ==
  {<<l, n, w>> \in (1..Len(nn)) \X (1..10) \X (0..10) :
     /\ n <= Len(nn[l].neurons)
     /\ w <= Len(nn[l].neurons[n].weights)}

Value(nn, p) ==
  IF p[3] = 0 THEN nn[p[1]].neurons[p[2]].bias
  ELSE nn[p[1]].neurons[p[2]].weights[p[3]]

\* C1: elitism. After a reproduction step the robot ranked best, which no
\* robot beat in fitness, has the network it had before the step: every
\* weight and every bias of every neuron is unchanged.
C1_Elitism ==
  restarted =>
    /\ \A j \in Robots : prev[j].distance <= prev[rank[1]].distance
    /\ \A p \in Params(prev[rank[1]].nn) :
         Value(robots[rank[1]].nn, p) = Value(prev[rank[1]].nn, p)
    /\ robots[rank[1]].nn = prev[rank[1]].nn

\* a reproduction step whose best robot is not robot_0 and that changed the
\* network of every other robot
C1_Witness ==
  /\ restarted
  /\ rank[1] # 0
  /\ \A j \in Robots \ {rank[1]} : robots[j].nn # prev[j].nn

\* C2: after every reproduction step the fitness (distance) of every robot,
\* the best one included, is zero.
C2_FitnessReset ==
  restarted => \A j \in Robots : robots[j].distance = 0

\* C3: a Game.update call runs the reproduction step exactly when its tick
\* loop ends with no robot alive, and runs it once, inside the call; after it
\* every robot is alive and the game is not paused. A call whose loop leaves
\* a robot alive runs no reproduction step.
C3_OneReproductionPerExtinction ==
  [][ticks' # ticks =>
       LET extinct == \A j \in Robots : ~prev'[j].isAlive
       IN  /\ generation' = generation + (IF extinct THEN 1 ELSE 0)
           /\ restarted' = extinct
           /\ extinct => (\A j \in Robots : robots'[j].isAlive) /\ ~pause'
           /\ ~extinct => robots' = prev']_vars

\* a tick in which the running robots died, followed by the reproduction step
C3_Witness ==
  /\ restarted
  /\ ticks > 1
  /\ \A j \in Robots : ~prev[j].isAlive /\ prev[j].predicts > 0
  /\ \A j \in Robots : robots[j].isAlive

\* C4: the reproduction step ranks the robots by fitness, descending, and
\* breaks ties by population order: of two robots the one with the greater
\* distance has the better rank, and of two with the same distance the one
\* with the lower index; so the best is the lowest-indexed robot of maximal
\* distance.
C4_StableRanking ==
  restarted =>
    /\ Len(rank) = PopSize
    /\ {rank[p] : p \in 1..Len(rank)} = Robots
    /\ \A p, q \in 1..Len(rank) :
         p < q =>
           \/ prev[rank[p]].distance > prev[rank[q]].distance
           \/ /\ prev[rank[p]].distance = prev[rank[q]].distance
              /\ rank[p] < rank[q]
    /\ \A j \in Robots :
         prev[j].distance = prev[rank[1]].distance => rank[1] <= j

\* a ranking with a tie and with a robot ranked ahead of a lower-indexed one
C4_Witness ==
  /\ restarted
  /\ \E p, q \in 1..Len(rank) :
       p < q /\ prev[rank[p]].distance = prev[rank[q]].distance
  /\ \E p, q \in 1..Len(rank) : p < q /\ rank[p] > rank[q]

\* the ranks (from 0) of the worst fifth of a population of n, rounded down
BottomRanks(n) == {i \in 1..(n - 1) : i >= n - (n \div 5)}

\* the robots of the last reproduction step by tier
BestRobot == rank[1]
ReinitRobots == {j \in Robots : RankOf(rank, j) \in BottomRanks(PopSize)}
EliteRobots == Robots \ (ReinitRobots \cup {BestRobot})

\* v is max(0.01, b - m) or max(0.01, b + m) for a magnitude m in [0, 0.1).
\* Only three magnitudes need trying: the two distances of v and b, and the
\* largest one, which gives the floor whenever any magnitude does.
Derived(v, b) ==
  \E m \in {b - v, v - b, MUTATION_MULT - 1} :
    /\ m \in 0..(MUTATION_MULT - 1)
    /\ \/ v = Max(WUnit \div 100, b - m)
       \/ v = Max(WUnit \div 100, b + m)

\* the first Math.random() call the last reproduction step made for robot_j
StreamOf(j) ==
  draw.k + 1
  + DrawsBefore(RankOf(rank, j), PopSize, NumParams(DEFAULT_NN_CONFIG))

\* a network of the same shape as the best robot's, with other values
OtherBest == createLayers(DEFAULT_NN_CONFIG, draw.seed + 1, 0)

\* C5: the reproduction step splits the robots behind the best into two
\* tiers by rank. The worst fifth (of 10 robots: ranks 8 and 9) get weights
\* and biases that are fresh draws in [0, 1), the same whatever the best
\* robot's values are; every other robot (of 10: ranks 1..7) gets weights and
\* biases derived from the best robot's value at the same place.
C5_Tiers ==
  /\ {i \in 1..9 : ReinitTier(i, 10)} = {8, 9}
  /\ restarted =>
       /\ \A j \in ReinitRobots :
            /\ \A p \in Params(robots[j].nn) :
                 0 <= Value(robots[j].nn, p) /\ Value(robots[j].nn, p) < WUnit
            /\ robots[j].nn = MutateNetwork(prev[j].nn, OtherBest,
                                RankOf(rank, j), PopSize, draw.seed, StreamOf(j))
       /\ \A j \in EliteRobots :
            \A p \in Params(robots[j].nn) :
              Derived(Value(robots[j].nn, p), Value(prev[BestRobot].nn, p))

\* a reproduction step with both tiers, where a robot of the worst fifth
\* got a value that no mutation of the best robot's value gives
C5_Witness ==
  /\ restarted
  /\ EliteRobots # {}
  /\ \E j \in ReinitRobots :
       \E p \in Params(robots[j].nn) :
         ~Derived(Value(robots[j].nn, p), Value(prev[BestRobot].nn, p))

\* C6: after the reproduction step every weight and the bias of every neuron
\* of a robot of the elite-mutation tier is max(0.01, b - m) or
\* max(0.01, b + m), b the best robot's value at the same layer, neuron and
\* index and 0 <= m < 0.1; so it is within 0.1 of b or it is the floor 0.01.
C6_EliteMutation ==
  restarted =>
    \A j \in EliteRobots :
      /\ Params(robots[j].nn) = Params(prev[BestRobot].nn)
      /\ \A p \in Params(robots[j].nn) :
           LET v == Value(robots[j].nn, p)
               b == Value(robots[BestRobot].nn, p)
           IN  /\ Derived(v, b)
               /\ \/ v - b < WUnit \div 10 /\ b - v < WUnit \div 10
                  \/ v = WUnit \div 100

\* an elite-tier robot with a value above the best robot's, a value below
\* it, and a value the floor raised
C6_Witness ==
  /\ restarted
  /\ \E j \in EliteRobots :
       /\ \E p \in Params(robots[j].nn) :
            Value(robots[j].nn, p) > Value(robots[BestRobot].nn, p)
       /\ \E p \in Params(robots[j].nn) :
            /\ Value(robots[j].nn, p) < Value(robots[BestRobot].nn, p)
            /\ Value(robots[j].nn, p) > WUnit \div 100
       /\ \E p \in Params(robots[j].nn) :
            /\ Value(robots[j].nn, p) = WUnit \div 100
            /\ Value(robots[BestRobot].nn, p) < WUnit \div 100

\* C7: after every reproduction step every robot is in the starting
\* configuration: at the starting position, not jumping, with no vertical
\* velocity; also a robot that died in the air.
C7_StartingConfiguration ==
  restarted =>
    \A j \in Robots :
      /\ robots[j].position = RobotStartPosition
      /\ ~robots[j].isJumping
      /\ robots[j].velocity.y = 0

\* C8: a dead robot stays dead until the next reproduction step, and a tick
\* leaves its position, velocity, jumping flag and fitness as they were and
\* calls nn.predict for it no more.
C8_DeadFrozen ==
  [][\A j \in Robots :
       ~robots[j].isAlive =>
         /\ prev'[j].position = robots[j].position
         /\ prev'[j].velocity = robots[j].velocity
         /\ prev'[j].isJumping = robots[j].isJumping
         /\ prev'[j].distance = robots[j].distance
         /\ prev'[j].predicts = robots[j].predicts
         /\ ~prev'[j].isAlive
         /\ generation' = generation => robots'[j] = robots[j]]_vars

\* a tick that passed over a dead robot while another robot ran
C8_Witness ==
  /\ ticks > 0
  /\ ~restarted
  /\ \E j \in Robots : ~robots[j].isAlive /\ robots[j].predicts = 0
  /\ \E j \in Robots : robots[j].isAlive /\ robots[j].predicts > 0

\* C9: for a magnitude > 0 Neuron.createMutation returns a result different
\* from the value, on both branches.
C9_NonIdentity ==
  mutation.calls > 0 /\ mutation.mut > 0 => mutation.result # mutation.weight

\* C9, amended: for a magnitude > 0 the result equals the value in one case
\* only, the value being the floor 0.01 and the branch value - magnitude.
C9_NonIdentityOffFloor ==
  mutation.calls > 0 /\ mutation.mut > 0 =>
    (mutation.result = mutation.weight
       <=> mutation.weight = WUnit \div 100 /\ ~mutation.high)

\* a result of an earlier mutation, mutated on the branch value - magnitude
\* to a different value
C9_Witness ==
  /\ mutation.calls > 1
  /\ mutation.mut > 0
  /\ ~mutation.high
  /\ mutation.weight \notin MutationWeights
  /\ mutation.result # mutation.weight

\* C10: Neuron.createMutation returns a result >= 0.01 for every value,
\* every magnitude and either branch, also for a value that is itself the
\* result of a mutation.
C10_MutationFloor ==
  mutation.calls > 0 => mutation.result >= WUnit \div 100

\* a magnitude far above the value, on the branch value - magnitude
C10_Witness ==
  /\ mutation.calls > 1
  /\ ~mutation.high
  /\ mutation.mut > WUnit
  /\ mutation.weight < WUnit
  /\ mutation.result = WUnit \div 100

\* C11: within one Game.update call every Robot.update reads the box as it
\* stood when the call began: the box is not modified before a robot reads it.
C11_PreTickBox ==
  ticks > 0 => \A j \in Robots : prev[j].sensed = boxBefore

\* C11, amended: within one Game.update call every Robot.update reads the
\* same box state: not the state the call began with but the one Box.update
\* made of it earlier in the same call (the box comes before the robots in
\* Game.#objs). No Robot.update modifies the box, so it is also the box the
\* call ends with unless the call restarts the game.
C11_SameUpdatedBox ==
  ticks > 0 =>
    /\ \A i, j \in Robots : prev[i].sensed = prev[j].sensed
    /\ \A j \in Robots :
         /\ \E deltaTime \in DeltaTimes, seed \in Seeds :
              prev[j].sensed = BoxUpdate(boxBefore, deltaTime, seed, 0)
         /\ ~restarted => prev[j].sensed = box

\* a tick that recycled the box past the left edge before the robots read it
C11_Witness ==
  /\ ticks > 0
  /\ ~restarted
  /\ \A j \in Robots :
       /\ robots[j].predicts > 0
       /\ robots[j].sensed.position.x = ViewWidth * Unit
       /\ robots[j].sensed.position.x > boxBefore.position.x
       /\ robots[j].sensed.velocity > boxBefore.velocity

\* the size of layer l of a network
LayerSize(layers, l) == Len(layers[l].neurons)

\* C12: for every built network and every input, NeuralNetwork.predict
\* returns a vector of the size of the last layer when the input has the size
\* of layer 0, and throws, returning nothing, when it has another length.
C12_PredictShape ==
  network.call = "predict" /\ network.layers # << >> =>
    IF Len(network.values) = LayerSize(network.layers, 1)
    THEN /\ ~network.threw
         /\ Len(network.result)
              = LayerSize(network.layers, Len(network.layers))
    ELSE network.threw /\ network.result = << >>

\* layers 0..k-1 of the configuration, 0 < k < its length
PartlyBuilt(layers, layersConfig) ==
  /\ 0 < Len(layers)
  /\ Len(layers) < Len(layersConfig)
  /\ \A l \in 1..Len(layers) :
       /\ LayerSize(layers, l) = layersConfig[l].size
       /\ \A n \in 1..LayerSize(layers, l) :
            layers[l].neurons[n].activationFunc = layersConfig[l].funcName

\* C13: a NeuralNetwork.createLayers call that throws, for an empty
\* configuration or an unknown funcName at any layer, does not leave the
\* network holding the layers before the failing one.
C13_NoPartialTopology ==
  network.call = "createLayers" /\ network.threw =>
    ~PartlyBuilt(network.layers, network.layersConfig)

\* every weight and every bias of a network is >= 0
NonNegative(nn) ==
  \A l \in 1..Len(nn) :
    \A n \in 1..Len(nn[l].neurons) :
      /\ nn[l].neurons[n].bias >= 0
      /\ \A w \in 1..Len(nn[l].neurons[n].weights) :
           nn[l].neurons[n].weights[w] >= 0

\* the sum Neuron.activate hands to its activation function
WeightedSum(neuron, entries) ==
  SumTo([i \in 1..Len(neuron.weights) |->
           Mul(neuron.weights[i], entries[i])], Len(neuron.weights))
    + neuron.bias

\* the sums of the neurons of the layers l.. are >= 0, layerInput being the
\* output of layer l - 1
RECURSIVE NonNegativeSums(_, _, _)
NonNegativeSums(layers, l, layerInput) ==
  l <= Len(layers) =>
    /\ \A n \in 1..Len(layers[l].neurons) :
         WeightedSum(layers[l].neurons[n], layerInput) >= 0
    /\ NonNegativeSums(layers, l + 1,
                       LayerForward(layers[l], FALSE, layerInput))

\* C14: with DEFAULT_NN_CONFIG every weight and bias of every robot is >= 0
\* in every reachable state, so for what a robot senses the sum of every
\* neuron beyond layer 0 is >= 0 and the first output is >= 0.5: the jump
\* decision of every Robot.update call of an alive robot is true, in every
\* generation and whatever the weights.
C14_AlwaysJumps ==
  \A j \in Robots :
    /\ NonNegative(robots[j].nn)
    /\ NonNegativeSums(robots[j].nn, 2,
                       LayerForward(robots[j].nn[1], TRUE,
                                    Sense(robots[j], box)))
    /\ robots[j].predicts > 0 => robots[j].shouldJump
    /\ prev[j].predicts > 0 => prev[j].shouldJump

\* a robot of a later generation, its network mutated down to the floor
\* somewhere, that has decided to jump again
C14_Witness ==
  /\ generation > 0
  /\ ~restarted
  /\ \E j \in Robots :
       /\ robots[j].nn # robots[0].nn
       /\ \E p \in Params(robots[j].nn) :
            Value(robots[j].nn, p) = MUTATION_FLOOR
       /\ robots[j].isAlive
       /\ robots[j].sensed = box
       /\ robots[j].shouldJump

\* two robots agree in what a tick reads and writes of a robot, the network
\* apart
InStep(a, b) ==
  /\ a.isAlive = b.isAlive
  /\ a.position = b.position
  /\ a.velocity = b.velocity
  /\ a.isJumping = b.isJumping
  /\ a.distance = b.distance

\* C15: the robots evolve in lock-step. After every tick all robots have the
\* same alive flag, position, velocity and fitness, so all die in the same
\* tick and have equal fitness at every extinction; the stable sort then
\* ranks robot_0 best in every generation, and robot_0 keeps the network
\* Game.loadContent gave it for the whole run.
C15_LockStep ==
  /\ \A i, j \in Robots :
       InStep(robots[i], robots[j]) /\ InStep(prev[i], prev[j])
  /\ restarted =>
       /\ \A j \in Robots : ~prev[j].isAlive
       /\ rank[1] = 0
  /\ robots[0].nn = prev[0].nn
  /\ \E seed \in Seeds :
       robots[0].nn = createLayers(DEFAULT_NN_CONFIG, seed, 1)

\* the second extinction: robots with networks of their own, mutated or
\* drawn afresh by the first reproduction step, died in one tick
C15_Witness ==
  /\ restarted
  /\ generation > 1
  /\ \A j \in Robots : ~prev[j].isAlive /\ prev[j].distance > 0
  /\ \A j \in Robots \ {0} : prev[j].nn # prev[0].nn
  /\ \A j \in Robots \ {0} : robots[j].nn # prev[j].nn

====
